---- MODULE Spec2Model ----
(***************************************************************************)
(* GDF: the image pipeline of src/gdf_engine.py (ImageProcessor) and the   *)
(* foreground / background-worker wiring of src/main.py (MainLayout).      *)
(*                                                                         *)
(* Numbers.  A float32 intensity v is held as the integer v * Scale, so    *)
(* that the uint8 -> float load of line 24 (x / 255.0) is exact.  Values   *)
(* outside 0..Scale are floats outside [0,1].  Library primitives that     *)
(* are not in the repository (numpy, OpenCV) are computed on these         *)
(* integers; where the library uses exp, log or cube roots the model uses  *)
(* the integer stand-in described at the definition.                       *)
(***************************************************************************)
EXTENDS Integers, Sequences, FiniteSets, TLC

None == "None"

\* Python's None where the other values of the variable are arrays (TLC compares
\* records only with records).
NoArray == [obj |-> "None", h |-> 0, w |-> 0, px |-> <<>>]

\* gdf_engine.py:24  img.astype(np.float32) / 255.0
Scale == 255

Max2(a, b) == IF a >= b THEN a ELSE b
Min2(a, b) == IF a <= b THEN a ELSE b

\* Rounded division of integers, den > 0 (float rounding to the nearest unit).
RoundDiv(num, den) == (2 * num + den) \div (2 * den)

RECURSIVE SumOver(_, _)
\* Sum of f[x] over the finite set S.
SumOver(S, f) ==
    IF S = {} THEN 0
    ELSE LET x == CHOOSE y \in S : TRUE IN f[x] + SumOver(S \ {x}, f)

(***************************************************************************)
(* ndarray objects.  An image array is a record                            *)
(*   [obj |-> allocation site, h |-> rows, w |-> columns,                  *)
(*    px  |-> <<pixel>> in row-major order, pixel = <<c1, c2, c3>>].       *)
(* obj tells two arrays with equal content apart (copy versus alias).      *)
(***************************************************************************)
Shape(a) == <<a.h, a.w>>

\* The pixel content of an array, without its identity.
Content(a) == [h |-> a.h, w |-> a.w, px |-> a.px]

\* A new array of a's shape whose pixel i is f[i].
NewArray(site, a, f) ==
    [obj |-> site, h |-> a.h, w |-> a.w, px |-> [i \in 1..(a.h * a.w) |-> f[i]]]

\* ndarray.copy(): a new array with the same content.
ArrayCopy(site, a) == [a EXCEPT !.obj = site]

\* Pixel index of row y, column x (both from 0).
Idx(a, y, x) == y * a.w + x + 1
RowOf(a, i) == (i - 1) \div a.w
ColOf(a, i) == (i - 1) % a.w

\* A clamp of the upper end only.
Clip01_upper(v) == Min2(Scale, v)

\* np.clip(v, 0.0, 1.0) on one value.
Clip01(v) == Max2(0, Min2(Scale, v))

InUnit(a) == \A i \in DOMAIN a.px : \A c \in 1..3 : a.px[i][c] \in 0..Scale

(***************************************************************************)
(* Bounds and inputs                                                       *)
(***************************************************************************)
\* Operations in flight at once: workers started whose completion callback
\* has not yet run.  One slot per operation.
MaxOps == 2

\* Operations (loads and preset applications) the user starts in one session.
MaxStarts == 3

\* The slider has positions 0..AlphaMax, position k meaning alpha = k / AlphaMax.
AlphaMax == 2

Slots == 1..MaxOps
AlphaLevels == 0..AlphaMax

\* The files the user can select, as path components, and what cv2.imread
\* decodes them to: a BGR uint8 array, or None for a file that is no image.
Paths ==
    { <<"sdcard", "void.png">>, <<"sdcard", "hull.jpg">>, <<"sdcard", "notes.txt">> }

imread(path) ==
    IF path = <<"sdcard", "void.png">>
        THEN [obj |-> "imread16", h |-> 1, w |-> 2,
              px |-> << <<10, 128, 250>>, <<200, 60, 30>> >>]
    ELSE IF path = <<"sdcard", "hull.jpg">>
        THEN [obj |-> "imread16", h |-> 2, w |-> 1,
              px |-> << <<255, 255, 255>>, <<90, 140, 20>> >>]
    ELSE NoArray

RECURSIVE PathStr(_)
\* The path as the string Python formats into messages.
PathStr(path) ==
    IF path = <<>> THEN "" ELSE "/" \o Head(path) \o PathStr(Tail(path))

\* os.path.basename
basename(path) == path[Len(path)]

\* gdf_engine.py:145  PRESETS keys: the names the preset buttons pass.
PRESETS == {"VOID_HUNTER", "HULL_SCANNER", "WAKE_MAPPER"}

\* Names a direct caller of apply_preset can pass.
PresetNames == PRESETS \cup {"DEEP_FIELD"}

VARIABLES
    original_layer,   \* ImageProcessor.original_layer: NoArray or an array
    processed_layer,  \* ImageProcessor.processed_layer: NoArray or an array
    current_preset,   \* ImageProcessor.current_preset: None or a name
    uint8_cast,       \* what this build's float -> uint8 cast does out of range
    thr,              \* slot -> the thread running there: pc, caller, arg, local, exc
    clockq,           \* Clock.schedule_once callbacks not yet run, oldest first
    status_message,   \* MainLayout.status_message
    fader,            \* ids.truth_fader.value as the callbacks set it (a position)
    ud,               \* the foreground's update_display frame: pc and locals
    started,          \* operations started so far in this session
    uncaught          \* the exception that left the foreground's event loop, or None

vars == <<original_layer, processed_layer, current_preset, uint8_cast, thr, clockq,
          status_message, fader, ud, started, uncaught>>

engine == <<original_layer, processed_layer, current_preset>>
gui == <<clockq, status_message, fader, ud, started, uncaught>>

(***************************************************************************)
(* module_log_stretch                                                      *)
(***************************************************************************)
RECURSIVE Exp2(_)
\* floor(log2(n)), n >= 1.
Exp2(n) == IF n < 2 THEN 0 ELSE 1 + Exp2(n \div 2)

RECURSIVE Pow2(_)
Pow2(e) == IF e = 0 THEN 1 ELSE 2 * Pow2(e - 1)

\* log2(n) in units of 1/1024, linear between powers of two: the stand-in
\* for the library logarithm (monotone, exact at powers of two).
Log2Fix(n) ==
    LET e == Exp2(n) IN e * 1024 + ((n - Pow2(e)) * 1024) \div Pow2(e)

\* np.log1p(y) for y >= 0 held as y * Scale; the result is in log2 units, which
\* cancel in the quotient of line 46.
log1p(y) == Log2Fix(Scale + y) - Log2Fix(Scale)

module_log_stretch(image, strength) ==
    NewArray("clip47", image,
        [i \in DOMAIN image.px |-> [c \in 1..3 |->
            LET image_safe == Max2(image.px[i][c], 0)
                mapped == RoundDiv(log1p(strength * image_safe) * Scale,
                                   log1p(strength * Scale))
            IN  Clip01(mapped)]])


(***************************************************************************)
(* module_clahe                                                            *)
(***************************************************************************)
\* cv2.cvtColor(image, COLOR_RGB2LAB) on one float pixel: L in 0..100, a and b
\* signed.  Stand-in for CIE L*a*b*: L is 100 times the Rec.709 luminance and
\* a, b are scaled colour differences (the cube-root response is left out).
RGB2LAB(p) ==
    <<RoundDiv(213 * p[1] + 715 * p[2] + 72 * p[3], 10),
      127 * (p[1] - p[2]),
      127 * (p[2] - p[3])>>

\* cv2.cvtColor(lab, COLOR_LAB2RGB) on one pixel: the inverse of RGB2LAB.  Its
\* output leaves [0,1] when L does not match the chroma.
LAB2RGB(q) ==
    LET g == RoundDiv(1270 * q[1] - 213 * q[2] + 72 * q[3], 127000)
    IN  <<g + RoundDiv(q[2], 127), g, g - RoundDiv(q[3], 127)>>

\* ndarray.astype(np.uint8) on the float v (held as v * Scale): truncation; out
\* of 0..255 the C conversion is undefined and the build either wraps (x86) or
\* saturates (ARM).
AsUint8(v) ==
    LET t == IF v >= 0 THEN v \div Scale ELSE -((-v) \div Scale)
    IN  IF t \in 0..255 THEN t
        ELSE IF uint8_cast = "wrap" THEN t % 256
        ELSE IF t < 0 THEN 0 ELSE 255

\* cv::borderInterpolate(p, n, BORDER_REFLECT_101): the index p mirrored into
\* 0..n-1 without repeating the edge pixel.
Reflect101(p, n) ==
    IF n = 1 THEN 0
    ELSE LET q == p % (2 * n - 2) IN IF q < n THEN q ELSE 2 * n - 2 - q

\* cv2.createCLAHE(clipLimit, tileGridSize).apply(plane) on the uint8 plane
\* (pixel index -> 0..255) of an h x w image: cv::CLAHE_Impl::apply.
ClaheApply(plane, h, w, clipLimit, tileGridSize) ==
    LET tilesY == tileGridSize[1]
        tilesX == tileGridSize[2]
        fits == (w % tilesX = 0) /\ (h % tilesY = 0)
        \* copyMakeBorder(src, 0, tilesY - h % tilesY, 0, tilesX - w % tilesX)
        extH == IF fits THEN h ELSE h + tilesY - (h % tilesY)
        extW == IF fits THEN w ELSE w + tilesX - (w % tilesX)
        th == extH \div tilesY
        tw == extW \div tilesX
        tileArea == tw * th
        clip == Max2((clipLimit * tileArea) \div 256, 1)
        at(y, x) == plane[Reflect101(y, h) * w + Reflect101(x, w) + 1]
        cells(ty, tx) == (ty * th .. ty * th + th - 1) \X (tx * tw .. tx * tw + tw - 1)
        count(ty, tx, u) ==
            Cardinality({rc \in cells(ty, tx) : at(rc[1], rc[2]) = u})
        values(ty, tx) == {at(rc[1], rc[2]) : rc \in cells(ty, tx)}
        \* the tile's lookup table at v: clipped histogram, excess spread over
        \* the 256 bins, cumulated and scaled by 255 / tileArea
        lut(ty, tx, v) ==
            LET vs == values(ty, tx)
                excess == SumOver(vs,
                    [u \in vs |-> Max2(count(ty, tx, u) - clip, 0)])
                redistBatch == excess \div 256
                residual == excess - redistBatch * 256
                residualStep == IF residual = 0 THEN 1 ELSE Max2(256 \div residual, 1)
                below == {u \in vs : u <= v}
                sum == SumOver(below,
                           [u \in below |-> Min2(count(ty, tx, u), clip)])
                       + (v + 1) * redistBatch
                       + (IF residual = 0 THEN 0
                          ELSE Min2(residual, v \div residualStep + 1))
            IN  Min2(255, RoundDiv(sum * 255, tileArea))
        \* CLAHE_Interpolation_Body: bilinear blend of the four nearest tiles
        out(y, x) ==
            LET v == plane[y * w + x + 1]
                nx == 2 * x - tw
                ny == 2 * y - th
                tx1 == nx \div (2 * tw)
                ty1 == ny \div (2 * th)
                xa == nx - tx1 * 2 * tw
                ya == ny - ty1 * 2 * th
                xa1 == 2 * tw - xa
                ya1 == 2 * th - ya
                txL == Max2(tx1, 0)
                txR == Min2(tx1 + 1, tilesX - 1)
                tyT == Max2(ty1, 0)
                tyB == Min2(ty1 + 1, tilesY - 1)
                res == (lut(tyT, txL, v) * xa1 + lut(tyT, txR, v) * xa) * ya1
                     + (lut(tyB, txL, v) * xa1 + lut(tyB, txR, v) * xa) * ya
            IN  Min2(255, RoundDiv(res, 4 * tw * th))
    IN  [i \in 1..(h * w) |-> out((i - 1) \div w, (i - 1) % w)]

module_clahe(image, clip_limit, tile_grid_size) ==
    LET lab == [i \in DOMAIN image.px |-> RGB2LAB(image.px[i])]
        \* l, a, b = cv2.split(lab); l_uint8 = (l * 255.0).astype(np.uint8)
        l_uint8 == [i \in DOMAIN image.px |-> AsUint8(lab[i][1] * 255)]
        cl_uint8 == ClaheApply(l_uint8, image.h, image.w, clip_limit, tile_grid_size)
        \* cl = cl_uint8.astype(np.float32) / 255.0
        cl == [i \in DOMAIN image.px |-> (cl_uint8[i] * Scale) \div 255]
        result == [i \in DOMAIN image.px |->
                      LAB2RGB(<<cl[i], lab[i][2], lab[i][3]>>)]
    IN  NewArray("clip79", image,
            [i \in DOMAIN image.px |-> [c \in 1..3 |-> Clip01(result[i][c])]])

(***************************************************************************)
(* module_high_pass                                                        *)
(***************************************************************************)
\* cv2.GaussianBlur(image, (k, k), 0), border BORDER_REFLECT_101.  The window
\* and the border are OpenCV's; the weights are uniform over the window (the
\* stand-in for the Gaussian weights, which need exp).
GaussianBlur(image, ksize) ==
    LET r == (ksize - 1) \div 2
        hits(p, n, j) == Cardinality({d \in -r..r : Reflect101(p + d, n) = j})
        \* weight[i][j]: how often source pixel j falls in the window of pixel i
        weight == [i \in DOMAIN image.px |-> [j \in DOMAIN image.px |->
                      hits(RowOf(image, i), image.h, RowOf(image, j))
                      * hits(ColOf(image, i), image.w, ColOf(image, j))]]
    IN  NewArray("blur90", image,
            [i \in DOMAIN image.px |-> [c \in 1..3 |->
                RoundDiv(SumOver(DOMAIN image.px,
                             [j \in DOMAIN image.px |-> weight[i][j] * image.px[j][c]]),
                         ksize * ksize)]])

module_high_pass(image, kernel_size) ==
    LET ksize == IF kernel_size % 2 = 0 THEN kernel_size + 1 ELSE kernel_size
        blurred == GaussianBlur(image, ksize)
    IN  NewArray("clip100", image,
            [i \in DOMAIN image.px |-> [c \in 1..3 |->
                LET inverted_blur == Scale - blurred.px[i][c]
                    \* 0.5 * image + 0.5 * inverted_blur
                    high_pass == RoundDiv(image.px[i][c] + inverted_blur, 2)
                IN  Clip01(high_pass)]])

(***************************************************************************)
(* ImageProcessor.load_image and apply_preset, one step per access to the  *)
(* processor's fields.  t is the slot of the calling thread.               *)
(***************************************************************************)
NoThread ==
    [pc |-> "idle", caller |-> None, arg |-> None, local |-> NoArray, exc |-> None]

\* Where a call returns to, and where an exception it raises lands.
ReturnTo(caller) ==
    IF caller = "_load_image_thread" THEN "L76"
    ELSE IF caller = "_apply_preset_thread" THEN "P98"
    ELSE "idle"

RaiseTo(caller) == IF caller = "_load_image_thread" THEN "L78" ELSE "idle"

Return(t) ==
    IF ReturnTo(thr[t].caller) = "idle"
        THEN [thr EXCEPT ![t] = NoThread]
        ELSE [thr EXCEPT ![t].pc = ReturnTo(thr[t].caller), ![t].local = NoArray]

Raise(t, message) ==
    IF RaiseTo(thr[t].caller) = "idle"
        THEN [thr EXCEPT ![t] = [NoThread EXCEPT !.exc = message]]
        ELSE [thr EXCEPT ![t].pc = RaiseTo(thr[t].caller), ![t].local = NoArray,
                         ![t].exc = message]

\* Lines 21-24: cvtColor(BGR2RGB), astype(float32) / 255.0.
ToFloatRGB(img) ==
    NewArray("astype24", img,
        [i \in DOMAIN img.px |->
            <<(img.px[i][3] * Scale) \div 255,
              (img.px[i][2] * Scale) \div 255,
              (img.px[i][1] * Scale) \div 255>>])

\* Lines 16-24: decode, or raise ValueError.
load_image_16(t) ==
    /\ thr[t].pc = "L16"
    /\ LET img == imread(thr[t].arg) IN
        IF img = NoArray
            THEN thr' = Raise(t, "Could not load image from " \o PathStr(thr[t].arg))
            ELSE thr' = [thr EXCEPT ![t].pc = "L26", ![t].local = ToFloatRGB(img)]
    /\ UNCHANGED <<engine, uint8_cast, gui>>

\* Line 26: self.original_layer = img_float
load_image_26(t) ==
    /\ thr[t].pc = "L26"
    /\ original_layer' = thr[t].local
    /\ thr' = [thr EXCEPT ![t].pc = "L28"]
    /\ UNCHANGED <<processed_layer, current_preset, uint8_cast, gui>>

\* The processed layer as an alias of the original array.
InitialProcessed_alias(img_float) == img_float

\* The value line 28 stores.
InitialProcessed(img_float) == ArrayCopy("copy28", img_float)

\* Line 28: self.processed_layer = img_float.copy(); return True
load_image_28(t) ==
    /\ thr[t].pc = "L28"
    /\ processed_layer' = InitialProcessed(thr[t].local)
    /\ thr' = Return(t)
    /\ UNCHANGED <<original_layer, current_preset, uint8_cast, gui>>

\* Lines 106-109: return if nothing is loaded, else temp_image = original.copy()
apply_preset_106(t) ==
    /\ thr[t].pc = "P106"
    /\ IF original_layer = NoArray
        THEN thr' = Return(t)
        ELSE thr' = [thr EXCEPT ![t].pc = "P140",
                                ![t].local = ArrayCopy("copy109", original_layer)]
    /\ UNCHANGED <<engine, uint8_cast, gui>>

\* The branches with HULL_SCANNER's two filters in the other order.
Branch_reordered(name) ==
    IF name = "VOID_HUNTER" THEN <<118, 119>>
    ELSE IF name = "HULL_SCANNER" THEN <<125, 124>>
    ELSE IF name = "WAKE_MAPPER" THEN <<131, 133, 135>>
    ELSE <<138>>

\* Lines 116-138: the statements of the branch that name selects, by line
\* number; an unknown name reaches line 138, which only prints a warning.
Branch(name) ==
    IF name = "VOID_HUNTER" THEN <<118, 119>>
    ELSE IF name = "HULL_SCANNER" THEN <<124, 125>>
    ELSE IF name = "WAKE_MAPPER" THEN <<131, 133, 135>>
    ELSE <<138>>

\* The call each of those lines makes: the module and its keyword argument.
LineCall(line) ==
    IF line = 118 THEN <<"module_log_stretch", 50>>
    ELSE IF line = 119 THEN <<"module_clahe", 4>>
    ELSE IF line = 124 THEN <<"module_clahe", 2>>
    ELSE IF line = 125 THEN <<"module_high_pass", 31>>
    ELSE IF line = 131 THEN <<"module_log_stretch", 10>>
    ELSE IF line = 133 THEN <<"module_high_pass", 51>>
    ELSE IF line = 135 THEN <<"module_clahe", 3>>
    ELSE <<"print", 0>>

\* temp_image = self.<module>(temp_image, <argument>); tile_grid_size keeps its
\* default (8, 8).
RunCall(call, temp_image) ==
    IF call[1] = "module_log_stretch" THEN module_log_stretch(temp_image, call[2])
    ELSE IF call[1] = "module_clahe" THEN module_clahe(temp_image, call[2], <<8, 8>>)
    ELSE IF call[1] = "module_high_pass" THEN module_high_pass(temp_image, call[2])
    ELSE temp_image

RECURSIVE RunLines(_, _)
RunLines(lines, temp_image) ==
    IF lines = <<>> THEN temp_image
    ELSE RunLines(Tail(lines), RunCall(LineCall(Head(lines)), temp_image))

PresetFilters(name, temp_image) == RunLines(Branch(name), temp_image)

\* Lines 116-140: self.processed_layer = temp_image
apply_preset_140(t) ==
    /\ thr[t].pc = "P140"
    /\ processed_layer' = PresetFilters(thr[t].arg, thr[t].local)
    /\ thr' = [thr EXCEPT ![t].pc = "P141"]
    /\ UNCHANGED <<original_layer, current_preset, uint8_cast, gui>>

\* Lines 141-143: self.current_preset = name; return
apply_preset_141(t) ==
    /\ thr[t].pc = "P141"
    /\ current_preset' = thr[t].arg
    /\ thr' = Return(t)
    /\ UNCHANGED <<original_layer, processed_layer, uint8_cast, gui>>

EngineStep(t) ==
    \/ load_image_16(t)
    \/ load_image_26(t)
    \/ load_image_28(t)
    \/ apply_preset_106(t)
    \/ apply_preset_140(t)
    \/ apply_preset_141(t)

InitEngine ==
    /\ original_layer = NoArray
    /\ processed_layer = NoArray
    /\ current_preset = None
    /\ uint8_cast \in {"wrap", "saturate"}
    /\ thr = [t \in Slots |-> NoThread]

NoFrame ==
    [pc |-> "idle", alpha |-> 0, img_a |-> NoArray, img_b |-> NoArray,
     blended |-> NoArray]

InitGui ==
    /\ clockq = <<>>
    /\ status_message = "Ready"
    /\ fader = 0
    /\ ud = NoFrame
    /\ started = 0
    /\ uncaught = None

Init == InitEngine /\ InitGui

(***************************************************************************)
(* tests/test_engine.py: one thread calling the processor, each call run   *)
(* to its end before the next.                                             *)
(***************************************************************************)
HarnessIdle == \A t \in Slots : thr[t].pc = "idle"

\* test_engine.py:31  processor.load_image(path)
test_load_image(path) ==
    /\ HarnessIdle
    /\ thr' = [thr EXCEPT ![1] = [pc |-> "L16", caller |-> "test_engine",
                                  arg |-> path, local |-> NoArray, exc |-> None]]
    /\ UNCHANGED <<engine, uint8_cast, gui>>

\* test_engine.py:41  processor.apply_preset(preset)
test_apply_preset(name) ==
    /\ HarnessIdle
    /\ thr' = [thr EXCEPT ![1] = [pc |-> "P106", caller |-> "test_engine",
                                  arg |-> name, local |-> NoArray, exc |-> None]]
    /\ UNCHANGED <<engine, uint8_cast, gui>>

NextEngine ==
    \/ \E path \in Paths : test_load_image(path)
    \/ \E name \in PresetNames : test_apply_preset(name)
    \/ load_image_16(1)
    \/ load_image_26(1)
    \/ load_image_28(1)
    \/ apply_preset_106(1)
    \/ apply_preset_140(1)
    \/ apply_preset_141(1)

SpecEngine == Init /\ [][NextEngine]_vars

(***************************************************************************)
(* main.py: MainLayout.  The foreground is Kivy's main thread: it runs one *)
(* handler at a time; workers run beside it.                               *)
(***************************************************************************)
\* The closure variable e of line 78 after the except clause has ended.
Unbound == "<unbound>"

Active == {t \in Slots : thr[t].pc # "idle"}

\* Operations started whose completion callback has not run yet.
InFlight == Cardinality(Active) + Len(clockq)

\* The session may start another operation.
MayStart == InFlight < MaxOps /\ started < MaxStarts

FreeSlot == CHOOSE t \in Slots :
    thr[t].pc = "idle" /\ \A u \in Slots : u < t => thr[u].pc # "idle"

\* threading.Thread(target=..., args=(arg,)).start()
StartThread(target, firstpc, arg) ==
    [thr EXCEPT ![FreeSlot] = [pc |-> firstpc, caller |-> target, arg |-> arg,
                               local |-> NoArray, exc |-> None]]

\* The foreground is between handlers and its event loop is alive.
FgIdle == ud.pc = "idle" /\ uncaught = None

\* Lines 110-126 of update_display: return if nothing is loaded, else
\* img_a = self.processor.original_layer.
UpdateDisplayEntry(alpha) ==
    IF original_layer = NoArray THEN NoFrame
    ELSE [NoFrame EXCEPT !.pc = "U127", !.alpha = alpha, !.img_a = original_layer]

\* Lines 63-71.
load_image_callback(selection) ==
    /\ FgIdle
    /\ IF selection = <<>>
        THEN UNCHANGED <<thr, status_message, started>>
        ELSE /\ MayStart
             /\ status_message' = "Loading " \o basename(selection[1]) \o "..."
             /\ thr' = StartThread("_load_image_thread", "L16", selection[1])
             /\ started' = started + 1
    /\ UNCHANGED <<engine, uint8_cast, clockq, fader, ud, uncaught>>

\* Line 76: Clock.schedule_once(lambda dt: self._post_load_success())
load_image_thread_76(t) ==
    /\ thr[t].pc = "L76"
    /\ clockq' = Append(clockq,
                    [fn |-> "_post_load_success", arg |-> None, owner |-> 0])
    /\ thr' = [thr EXCEPT ![t] = NoThread]
    /\ UNCHANGED <<engine, uint8_cast, status_message, fader, ud, started, uncaught>>

\* Lines 77-78: except Exception as e: schedule a lambda that reads e when run.
load_image_thread_78(t) ==
    /\ thr[t].pc = "L78"
    /\ clockq' = Append(clockq,
                    [fn |-> "_post_load_failure", arg |-> thr[t].exc, owner |-> t])
    /\ thr' = [thr EXCEPT ![t].pc = "L78end"]
    /\ UNCHANGED <<engine, uint8_cast, status_message, fader, ud, started, uncaught>>

\* The callbacks in the queue once slot t's except clause has ended: Python
\* unbinds e there, and the lambda's closure shares that variable.
EndExcept(t, queue) ==
    [i \in DOMAIN queue |->
        IF queue[i].owner = t
            THEN [queue[i] EXCEPT !.arg = Unbound, !.owner = 0]
            ELSE queue[i]]

\* End of the except clause of lines 77-78; the thread ends.
load_image_thread_end(t) ==
    /\ thr[t].pc = "L78end"
    /\ clockq' = EndExcept(t, clockq)
    /\ thr' = [thr EXCEPT ![t] = NoThread]
    /\ UNCHANGED <<engine, uint8_cast, status_message, fader, ud, started, uncaught>>

\* Lines 80-83, run by the Clock on the foreground.
post_load_success ==
    /\ FgIdle
    /\ clockq # <<>>
    /\ Head(clockq).fn = "_post_load_success"
    /\ clockq' = Tail(clockq)
    /\ status_message' = "Image Loaded"
    /\ fader' = 0
    /\ ud' = UpdateDisplayEntry(0)
    /\ UNCHANGED <<engine, uint8_cast, thr, started, uncaught>>

\* What the lambda of line 78 does when the Clock runs it: with e still bound,
\* _post_load_failure(str(e)) sets the status (line 86); with e unbound,
\* evaluating str(e) raises NameError out of the callback.  <<status, uncaught>>.
PostLoadFailure(e) ==
    IF e = Unbound
        THEN <<status_message, "NameError">>
        ELSE <<"Error: " \o e, uncaught>>

post_load_failure ==
    /\ FgIdle
    /\ clockq # <<>>
    /\ Head(clockq).fn = "_post_load_failure"
    /\ clockq' = Tail(clockq)
    /\ status_message' = PostLoadFailure(Head(clockq).arg)[1]
    /\ uncaught' = PostLoadFailure(Head(clockq).arg)[2]
    /\ UNCHANGED <<engine, uint8_cast, thr, fader, ud, started>>

\* Lines 88-94.
trigger_preset(name) ==
    /\ FgIdle
    /\ IF original_layer = NoArray
        THEN /\ status_message' = "Load an image first"
             /\ UNCHANGED <<thr, started>>
        ELSE /\ MayStart
             /\ status_message' = "Applying " \o name \o "..."
             /\ thr' = StartThread("_apply_preset_thread", "P106", name)
             /\ started' = started + 1
    /\ UNCHANGED <<engine, uint8_cast, clockq, fader, ud, uncaught>>

\* Line 98: Clock.schedule_once(lambda dt: self._post_preset_success(name))
apply_preset_thread_98(t) ==
    /\ thr[t].pc = "P98"
    /\ clockq' = Append(clockq,
                    [fn |-> "_post_preset_success", arg |-> thr[t].arg, owner |-> 0])
    /\ thr' = [thr EXCEPT ![t] = NoThread]
    /\ UNCHANGED <<engine, uint8_cast, status_message, fader, ud, started, uncaught>>

\* Lines 100-103, run by the Clock on the foreground.
post_preset_success ==
    /\ FgIdle
    /\ clockq # <<>>
    /\ Head(clockq).fn = "_post_preset_success"
    /\ clockq' = Tail(clockq)
    /\ status_message' = "Applied " \o Head(clockq).arg
    /\ fader' = AlphaMax
    /\ ud' = UpdateDisplayEntry(AlphaMax)
    /\ UNCHANGED <<engine, uint8_cast, thr, started, uncaught>>

\* Lines 105-107, called with the position the slider was moved to.
on_slider_change(value) ==
    /\ FgIdle
    /\ ud' = UpdateDisplayEntry(value)
    /\ UNCHANGED <<engine, uint8_cast, thr, clockq, status_message, fader, started,
                   uncaught>>

\* cv2.addWeighted(src1, alpha, src2, beta, gamma): src1 * alpha + src2 * beta
\* + gamma, the weights given in units of 1 / AlphaMax.
addWeighted(src1, alpha, src2, beta, gamma) ==
    NewArray("addWeighted130", src1,
        [i \in DOMAIN src1.px |-> [c \in 1..3 |->
            RoundDiv(src1.px[i][c] * alpha + src2.px[i][c] * beta + gamma * AlphaMax,
                     AlphaMax)]])

\* The blend with the weights taken the other way round.
Blend_swapped(img_a, img_b, alpha) ==
    addWeighted(img_a, alpha, img_b, AlphaMax - alpha, 0)

\* Line 130: blended = cv2.addWeighted(img_a, 1.0 - alpha, img_b, alpha, 0.0),
\* alpha a slider position.
Blend(img_a, img_b, alpha) ==
    addWeighted(img_a, AlphaMax - alpha, img_b, alpha, 0)

\* Whether cv2.addWeighted accepts the operands: two arrays of one size.
Blendable(img_a, img_b) == img_b # NoArray /\ Shape(img_b) = Shape(img_a)

\* Lines 127-133: img_b = self.processor.processed_layer; the blend, which
\* raises when the operands do not fit; _update_texture(blended) hands the
\* result to the widget (not part of the model) and the handler returns.
update_display_127 ==
    /\ ud.pc = "U127"
    /\ uncaught = None
    /\ uncaught' = IF Blendable(ud.img_a, processed_layer) THEN None ELSE "cv2.error"
    /\ ud' = NoFrame
    /\ UNCHANGED <<engine, uint8_cast, thr, clockq, status_message, fader, started>>

Next ==
    \/ \E selection \in {<<>>} \cup {<<path>> : path \in Paths} :
           load_image_callback(selection)
    \/ \E name \in PRESETS : trigger_preset(name)
    \/ \E value \in AlphaLevels : on_slider_change(value)
    \/ post_load_success
    \/ post_load_failure
    \/ post_preset_success
    \/ update_display_127
    \/ \E t \in Slots :
        \/ load_image_16(t)
        \/ load_image_26(t)
        \/ load_image_28(t)
        \/ load_image_thread_76(t)
        \/ load_image_thread_78(t)
        \/ load_image_thread_end(t)
        \/ apply_preset_106(t)
        \/ apply_preset_140(t)
        \/ apply_preset_141(t)
        \/ apply_preset_thread_98(t)

Spec == Init /\ [][Next]_vars

(***************************************************************************)
(* The blend of update_display on its own: line 130 applied to operands    *)
(* drawn from a set of one-pixel layers.                                   *)
(***************************************************************************)
SampleValues == {0, 100, Scale}

SampleLayers ==
    {[obj |-> "sample", h |-> 1, w |-> 1, px |-> << <<r, g, b>> >>] :
        r \in SampleValues, g \in SampleValues, b \in SampleValues}

InitBlend ==
    /\ InitEngine
    /\ clockq = <<>>
    /\ status_message = "Ready"
    /\ fader = 0
    /\ started = 0
    /\ uncaught = None
    /\ \E a \in SampleLayers, b \in SampleLayers, alpha \in AlphaLevels :
           ud = [pc |-> "U130", alpha |-> alpha, img_a |-> a, img_b |-> b,
                 blended |-> NoArray]

\* Line 130 with the operands held in the frame.
update_display_130 ==
    /\ ud.pc = "U130"
    /\ ud' = [ud EXCEPT !.pc = "U133",
                        !.blended = Blend(ud.img_a, ud.img_b, ud.alpha)]
    /\ UNCHANGED <<engine, uint8_cast, thr, clockq, status_message, fader, started,
                   uncaught>>

NextBlend == update_display_130

SpecBlend == InitBlend /\ [][NextBlend]_vars

(***************************************************************************)
(* Properties                                                              *)
(***************************************************************************)
\* A thread is inside ImageProcessor.load_image / apply_preset.
InLoadImage(t) == thr[t].pc \in {"L16", "L26", "L28"}
InApplyPreset(t) == thr[t].pc \in {"P106", "P140", "P141"}

\* C1: a step of apply_preset called with a name outside the three presets
\* leaves the content of processed_layer and current_preset as they were.
C1_UnknownPresetIsNoOp ==
    [][(InApplyPreset(1) /\ thr[1].arg \notin PRESETS)
          => /\ Content(processed_layer') = Content(processed_layer)
             /\ current_preset' = current_preset]_vars

\* C2: whenever both layers are set they have the same dimensions.
C2_SameDimensions ==
    (original_layer # NoArray /\ processed_layer # NoArray)
        => Shape(original_layer) = Shape(processed_layer)

\* C3: the foreground is never inside update_display's reads of the layers
\* (original_layer read, processed_layer about to be read) while a worker is
\* inside load_image or apply_preset.
C3_ReadsOnlyAfterCompletion ==
    ~(ud.pc = "U127" /\ \E t \in Slots : InLoadImage(t) \/ InApplyPreset(t))

\* C4: at most one background worker runs at any time.
C4_OneWorkerAtATime == Cardinality(Active) <= 1

\* The status while an operation is in progress (lines 68 and 93).
InProgressMessages ==
    {"Loading " \o basename(path) \o "..." : path \in Paths}
        \cup {"Applying " \o name \o "..." : name \in PRESETS}

\* No worker runs, no callback waits, the foreground is between handlers.
Quiescent == Active = {} /\ clockq = <<>> /\ ud.pc = "idle"

\* C5: once every started operation has run to its end and its callback has
\* been run, the status is no longer an in-progress message: each failure of
\* background work has been rendered.
C5_FailuresRendered == Quiescent => status_message \notin InProgressMessages

\* The message of the ValueError of line 18 for path.
LoadErrorMessage(path) == "Could not load image from " \o PathStr(path)

UndecodablePaths == {path \in Paths : imread(path) = NoArray}

\* C6: a load_image that cannot decode its path raises an error naming the
\* path and leaves both layers and current_preset as they were, and the
\* failure callback then sets the status to "Error: <message>".
C6_DecodeFailureSurfaced ==
    [][/\ \A t \in Slots :
            (thr[t].pc = "L16" /\ thr'[t].pc = "L78")
                => /\ thr[t].arg \in UndecodablePaths
                   /\ thr'[t].exc = LoadErrorMessage(thr[t].arg)
                   /\ UNCHANGED engine
       /\ (/\ clockq # <<>>
           /\ Head(clockq).fn = "_post_load_failure"
           /\ clockq' = Tail(clockq))
            => status_message' \in
                   {"Error: " \o LoadErrorMessage(path) : path \in UndecodablePaths}
      ]_vars

\* C7: no step of apply_preset changes original_layer; original_layer changes
\* only in the store of a load_image whose decode succeeded; and when that
\* load_image returns, processed_layer is another array with the content of
\* original_layer.
C7_OriginalImmutable ==
    [][/\ InApplyPreset(1) => original_layer' = original_layer
       /\ original_layer' # original_layer
            => /\ thr[1].pc = "L26"
               /\ imread(thr[1].arg) # NoArray
               /\ original_layer' = ToFloatRGB(imread(thr[1].arg))
       /\ thr[1].pc = "L28"
            => /\ Content(processed_layer') = Content(original_layer')
               /\ processed_layer'.obj # original_layer'.obj
      ]_vars

\* C7 witness: a preset has replaced the processed layer of a loaded image and
\* the original still holds the decoded file.
C7_Witness ==
    /\ HarnessIdle
    /\ current_preset = "HULL_SCANNER"
    /\ original_layer = ToFloatRGB(imread(<<"sdcard", "void.png">>))
    /\ Content(processed_layer) # Content(original_layer)

\* The preset table of the specification: filter and parameter, in order.
PresetTable(name) ==
    IF name = "VOID_HUNTER"
        THEN << <<"logStretch", 50>>, <<"adaptiveContrast", 4>> >>
    ELSE IF name = "HULL_SCANNER"
        THEN << <<"adaptiveContrast", 2>>, <<"highPass", 31>> >>
    ELSE << <<"logStretch", 10>>, <<"highPass", 51>>, <<"adaptiveContrast", 3>> >>

TableFilter(entry, layer) ==
    IF entry[1] = "logStretch" THEN module_log_stretch(layer, entry[2])
    ELSE IF entry[1] = "adaptiveContrast" THEN module_clahe(layer, entry[2], <<8, 8>>)
    ELSE module_high_pass(layer, entry[2])

RECURSIVE ApplyTable(_, _)
ApplyTable(entries, layer) ==
    IF entries = <<>> THEN layer
    ELSE ApplyTable(Tail(entries), TableFilter(Head(entries), layer))

\* C8: when apply_preset(name) returns for one of the three presets, the
\* processed layer is the table's filter sequence for name applied to the
\* original layer, whatever the processed layer held before.
C8_PresetIsTableSequence ==
    [][(thr[1].pc = "P141" /\ thr[1].arg \in PRESETS)
          => Content(processed_layer')
                 = Content(ApplyTable(PresetTable(thr[1].arg), original_layer'))]_vars

\* C8 witness: WAKE_MAPPER has been applied over the result of another preset
\* and the processed layer is the three-filter sequence of the original.
C8_Witness ==
    /\ HarnessIdle
    /\ current_preset = "WAKE_MAPPER"
    /\ original_layer # NoArray
    /\ Content(processed_layer)
           = Content(ApplyTable(PresetTable("WAKE_MAPPER"), original_layer))
    /\ Content(processed_layer)
           # Content(ApplyTable(PresetTable("HULL_SCANNER"), original_layer))
    /\ Content(processed_layer) # Content(original_layer)

\* C9: every pixel value of every stored layer lies in [0,1].
C9_LayersInUnitRange == InUnit(original_layer) /\ InUnit(processed_layer)

\* C9 witness: a preset's result is stored and has a channel at each end of
\* the range, where the clamp acts.
C9_Witness ==
    /\ current_preset \in PRESETS
    /\ processed_layer # NoArray
    /\ Content(processed_layer) # Content(original_layer)
    /\ \E i \in DOMAIN processed_layer.px : \E c \in 1..3 :
           processed_layer.px[i][c] = 0

\* C10: the blend is (1 - alpha) * original + alpha * processed; at alpha = 0
\* it is exactly the original layer and at alpha = 1 exactly the processed one.
C10_BlendEndpoints ==
    ud.pc = "U133"
        => /\ \A i \in DOMAIN ud.blended.px : \A c \in 1..3 :
                  ud.blended.px[i][c]
                      = RoundDiv((AlphaMax - ud.alpha) * ud.img_a.px[i][c]
                                     + ud.alpha * ud.img_b.px[i][c], AlphaMax)
           /\ ud.alpha = 0 => Content(ud.blended) = Content(ud.img_a)
           /\ ud.alpha = AlphaMax => Content(ud.blended) = Content(ud.img_b)

\* C10 witness: a blend at alpha = 0 of two different layers has been computed.
C10_Witness ==
    /\ ud.pc = "U133"
    /\ ud.alpha = 0
    /\ Content(ud.img_a) # Content(ud.img_b)
    /\ Content(ud.blended) = Content(ud.img_a)

\* C11: whenever the Clock runs _post_preset_success(N) (status becomes
\* "Applied N" and the display is refreshed), current_preset is N and the
\* processed layer is preset N's filter sequence applied to the original layer
\* that is loaded at that moment.
C11_AppliedMatchesState ==
    [][(/\ FgIdle
        /\ clockq # <<>>
        /\ Head(clockq).fn = "_post_preset_success"
        /\ clockq' = Tail(clockq)
        /\ status_message' = "Applied " \o Head(clockq).arg)
          => /\ current_preset' = Head(clockq).arg
             /\ Content(processed_layer')
                    = Content(ApplyTable(PresetTable(Head(clockq).arg),
                                         original_layer'))
      ]_vars
====
